---- MODULE Spec2Model ----
(***************************************************************************)
(* Model of src/app.py: the Streamlit dashboard "Qualite de Service".      *)
(*                                                                         *)
(* One run of main() is modelled as a state machine: charger_donnees()     *)
(* (path check, Latin-1 attempt, UTF-8 attempt), nettoyer_donnees(), the   *)
(* three sidebar filters, the KPIs and the three views.                    *)
(*                                                                         *)
(* Data representation.                                                    *)
(*   - A DataFrame is a record [columns, rows]: columns is the sequence of *)
(*     header strings, rows a sequence of rows, each a sequence of cells   *)
(*     aligned with columns.                                               *)
(*   - A cell is [int |-> i], [num |-> t] (a float, held in tenths),       *)
(*     [str |-> s] or NaN.                                                 *)
(*   - DataFrames are objects: heap maps an object id to its content, and  *)
(*     the Python variables df_raw and df hold object ids.                 *)
(*   - A mean is the fraction [s |-> sum of tenths, n |-> count], NaN when *)
(*     no value contributes.                                               *)
(*                                                                         *)
(* What is left out.                                                       *)
(*   - st.cache_data: one run is modelled, so charger_donnees is executed. *)
(*   - The two encodings give the same table when they do not raise.       *)
(*   - No two headers of a file normalize to the same column name.         *)
(*   - Formatting and chart rendering (st.metric, plotly).                 *)
(***************************************************************************)
EXTENDS Integers, Sequences, FiniteSets, TLC

VARIABLES
    file,        \* the CSV on disk and how the two read attempts behave
    pc,          \* position of the run inside main() / charger_donnees()
    attempts,    \* encodings tried by charger_donnees, in order
    ret,         \* return value of charger_donnees: an object id or None
    heap,        \* object id -> DataFrame content (or None when unallocated)
    df_raw,      \* main()'s variable df_raw
    df,          \* main()'s variable df
    loaded,      \* ghost: content of the table as charger_donnees returned it
    cleaned,     \* ghost: content of the table as nettoyer_donnees returned it
    sel,         \* the sidebar selections made so far
    kpi,         \* moyenne_reelle, moyenne_objectif, delta
    views,       \* df_time_long, df_bar, df_theme once produced
    notices      \* st.error / st.warning / st.info calls, in order

vars == <<file, pc, attempts, ret, heap, df_raw, df, loaded, cleaned, sel, kpi,
          views, notices>>

None == [none |-> TRUE]

(***************************************************************************)
(* Cells                                                                   *)
(***************************************************************************)
NaN == [nan |-> TRUE]
IsNaN(c) == "nan" \in DOMAIN c
IsStr(c) == "str" \in DOMAIN c
IsInt(c) == "int" \in DOMAIN c
IsNum(c) == "num" \in DOMAIN c
IsNumeric(c) == IsInt(c) \/ IsNum(c)

\* numeric value of a cell in tenths
Tenths(c) == IF IsInt(c) THEN c.int * 10 ELSE c.num

(***************************************************************************)
(* Text of the file and its conversions.  TLC strings are atomic, so the   *)
(* character-level functions are given by their graph on the vocabulary    *)
(* of the input files.                                                     *)
(***************************************************************************)
\* texts that parse as an integer
IntText ==
    ("2021" :> 2021) @@ ("2022" :> 2022) @@ ("2023" :> 2023) @@ ("2024" :> 2024)
    @@ ("98" :> 98) @@ ("90" :> 90) @@ ("80" :> 80)

\* texts that parse as a float (value in tenths)
FloatText ==
    ("95.0" :> 950) @@ ("90.0" :> 900) @@ ("98.5" :> 985) @@ ("80.5" :> 805)

\* str.replace(',', '.', regex=False)
ReplaceComma(s) ==
    CASE s = "95,0" -> "95.0"
      [] s = "90,0" -> "90.0"
      [] s = "98,5" -> "98.5"
      [] s = "80,5" -> "80.5"
      [] s = "1,2,3" -> "1.2.3"
      [] OTHER -> s

\* str(x) of an int
IntStr(i) == ToString(i)

\* str(x) of a float held in tenths (non-negative, one decimal)
FloatStr(t) == ToString(t \div 10) \o "." \o ToString(t % 10)

\* Series.astype(str), one cell
AsStr(c) ==
    CASE IsStr(c) -> c.str
      [] IsInt(c) -> IntStr(c.int)
      [] IsNum(c) -> FloatStr(c.num)
      [] OTHER -> "nan"

\* header.strip()
Strip(s) ==
    CASE s = " Annee " -> "Annee"
      [] s = "trimestre " -> "trimestre"
      [] s = " Resultat_Indicateurs_EN" -> "Resultat_Indicateurs_EN"
      [] s = "LIGNE " -> "LIGNE"
      [] OTHER -> s

\* header.lower()
Lower(s) ==
    CASE s = "Annee" -> "annee"
      [] s = " Annee " -> " annee "
      [] s = "Trimestre" -> "trimestre"
      [] s = "Resultat_Indicateurs_EN" -> "resultat_indicateurs_en"
      [] s = " Resultat_Indicateurs_EN" -> " resultat_indicateurs_en"
      [] s = "Objectif_Reference_Contrat" -> "objectif_reference_contrat"
      [] s = "LIGNE" -> "ligne"
      [] s = "LIGNE " -> "ligne "
      [] s = "Mode" -> "mode"
      [] s = "Thematique" -> "thematique"
      [] s = "Indicateur" -> "indicateur"
      [] OTHER -> s

\* head(15) of the ranked entity view
TopN == 15

\* how many entities beyond TopN the generated files reach
ExtraLignes == 2

\* longest body of the files enumerated row by row
MaxRows == 2

\* generated entity names "L01", "L02", ... (zero padded, so that the text
\* order is the numeric order)
LName(i) == IF i < 10 THEN "L0" \o ToString(i) ELSE "L" \o ToString(i)

LigneNames == [i \in 1..(TopN + ExtraLignes) |-> LName(i)]

\* lexicographic rank of the strings that are ever sorted
StrOrder ==
    <<"2021", "2021.0", "2022", "2022.0", "2023", "2023.0", "2024", "2024.0",
      "A", "B", "Bus", "C">> \o LigneNames \o
    <<"Metro", "Proprete", "RER", "Regularite",
      "T1", "T2", "T3", "T4", "T5", "Tous", "Toutes", "abc", "nan">>

StrRank(s) ==
    IF \E i \in 1..Len(StrOrder) : StrOrder[i] = s
    THEN CHOOSE i \in 1..Len(StrOrder) : StrOrder[i] = s
    ELSE 0

(***************************************************************************)
(* Generic sequence helpers                                                *)
(***************************************************************************)
Range(s) == {s[i] : i \in 1..Len(s)}

IndexOf(s, x) == CHOOSE i \in 1..Len(s) : s[i] = x

\* order-preserving list of the distinct elements of s (first occurrence)
RECURSIVE Unique(_)
Unique(s) ==
    IF s = <<>> THEN <<>>
    ELSE LET r == Unique(SubSeq(s, 1, Len(s) - 1))
             x == s[Len(s)]
         IN IF x \in Range(r) THEN r ELSE Append(r, x)

\* a <= b for two fractions [s, n] with n > 0 (an integer k is [s |-> k, n |-> 1])
FracLeq(a, b) == a.s * b.n <= b.s * a.n

\* stable insertion of item x into s, which is sorted by its items' key
RECURSIVE InsertSorted(_, _)
InsertSorted(s, x) ==
    IF s = <<>> THEN <<x>>
    ELSE IF FracLeq(s[Len(s)].key, x.key) THEN Append(s, x)
    ELSE Append(InsertSorted(SubSeq(s, 1, Len(s) - 1), x), s[Len(s)])

\* stable ascending sort of the items of s by their field key
RECURSIVE StableSort(_)
StableSort(s) ==
    IF s = <<>> THEN <<>>
    ELSE InsertSorted(StableSort(SubSeq(s, 1, Len(s) - 1)), s[Len(s)])

Reverse(s) == [i \in 1..Len(s) |-> s[Len(s) + 1 - i]]

\* DataFrame.sort_values uses quicksort, which is not stable: the order of
\* the items with equal keys is not determined.  Two orders are modelled:
\* equal keys in their order in s, or in the reverse of it.
TieOrders == {"kept", "reversed"}

SortValues(s, ties) == StableSort(IF ties = "kept" THEN s ELSE Reverse(s))

(***************************************************************************)
(* DataFrame helpers                                                       *)
(***************************************************************************)
HasCol(t, c) == c \in Range(t.columns)

\* df[c] as a sequence of cells
Col(t, c) == [i \in 1..Len(t.rows) |-> t.rows[i][IndexOf(t.columns, c)]]

Cell(t, row, c) == row[IndexOf(t.columns, c)]

\* df[c] = values (an existing column is replaced, a new one is appended)
SetCol(t, c, values) ==
    IF HasCol(t, c)
    THEN [t EXCEPT !.rows = [i \in 1..Len(t.rows) |->
                                [t.rows[i] EXCEPT ![IndexOf(t.columns, c)] = values[i]]]]
    ELSE [columns |-> Append(t.columns, c),
          rows |-> [i \in 1..Len(t.rows) |-> Append(t.rows[i], values[i])]]

\* df[c].dtype == object
IsObject(cells) == \E i \in 1..Len(cells) : IsStr(cells[i])

\* df.empty
Empty(t) == Len(t.rows) = 0 \/ Len(t.columns) = 0

\* Series.mean(): arithmetic mean of the non-missing values, NaN if none
Mean(cells) ==
    LET idx == {i \in 1..Len(cells) : IsNumeric(cells[i])}
        RECURSIVE Sum(_)
        Sum(S) == IF S = {} THEN 0
                  ELSE LET i == CHOOSE j \in S : TRUE
                       IN Tenths(cells[i]) + Sum(S \ {i})
    IN IF idx = {} THEN NaN ELSE [s |-> Sum(idx), n |-> Cardinality(idx)]

(***************************************************************************)
(* pandas.read_csv(fichier, sep=';', encoding=..., on_bad_lines='skip')    *)
(***************************************************************************)
\* a file with no header line at all makes read_csv raise EmptyDataError;
\* any other exception of an attempt is an input of the environment
ReadRaises(f, encoding) == f.header = <<>> \/ encoding \in f.raises

\* type inference of one column from its texts ("" is a missing cell)
InferCol(texts) ==
    LET idx == 1..Len(texts)
        present == {i \in idx : texts[i] # ""}
        allInt == \A i \in present : texts[i] \in DOMAIN IntText
        allNum == \A i \in present :
                     texts[i] \in DOMAIN IntText \cup DOMAIN FloatText
        value(s) == IF s \in DOMAIN IntText THEN 10 * IntText[s] ELSE FloatText[s]
    IN [i \in idx |->
          IF texts[i] = "" THEN NaN
          ELSE IF allInt /\ present = idx THEN [int |-> IntText[texts[i]]]
          ELSE IF allNum THEN [num |-> value(texts[i])]
          ELSE [str |-> texts[i]]]

\* the table read from the file: lines with too many fields are skipped,
\* short lines are padded with missing cells, each column is typed
ReadCsv(f) ==
    LET n == Len(f.header)
        kept == SelectSeq(f.lines, LAMBDA l : Len(l) <= n)
        pad(l) == [j \in 1..n |-> IF j <= Len(l) THEN l[j] ELSE ""]
        cols == [j \in 1..n |-> InferCol([i \in 1..Len(kept) |-> pad(kept[i])[j]])]
    IN [columns |-> f.header,
        rows |-> [i \in 1..Len(kept) |-> [j \in 1..n |-> cols[j][i]]]]

(***************************************************************************)
(* Input files                                                             *)
(***************************************************************************)
SourceHeader ==
    <<"annee", "trimestre", "ligne", "mode", "thematique",
      "resultat_indicateurs_en", "objectif_reference_contrat">>

\* the same columns as a spreadsheet export writes them
ExportHeader ==
    <<" Annee ", "trimestre ", "LIGNE ", "Mode", "Thematique",
      " Resultat_Indicateurs_EN", "Objectif_Reference_Contrat">>

\* lines of a file, in the order of SourceHeader
RowDomain ==
    { <<"2023", "T1", "A", "Metro", "Regularite", "95,0", "98">>,
      <<"2023", "T2", "A", "Metro", "Regularite", "90,0", "98">>,
      <<"2022", "T4", "B", "Bus", "Proprete", "98,5", "">>,
      <<"2023", "T1", "B", "Bus", "Regularite", "80,5", "90">>,
      <<"2023", "", "A", "Metro", "Proprete", "", "98">>,
      <<"abc", "T1", "A", "Metro", "Regularite", "95,0", "98">>,
      <<"abc", "T1", "A", "Metro", "Regularite", "", "98">>,
      <<"", "T1", "", "Bus", "", "90.0", "abc">>,
      <<"2023", "T5", "B", "", "Regularite", "abc", "98">>,
      <<"2022", "T5", "C", "RER", "Proprete", "80", "90">> }

SeqsUpTo(S, n) == UNION {[1..k -> S] : k \in 0..n}

MkFile(header, lines) ==
    [exists |-> TRUE, raises |-> {}, header |-> header, lines |-> lines]

\* the projection of a file on a subset of its columns, in the file's order
Project(header, lines, keep) ==
    LET idx == SelectSeq([j \in 1..Len(header) |-> j], LAMBDA j : header[j] \in keep)
    IN MkFile([k \in 1..Len(idx) |-> header[idx[k]]],
              [i \in 1..Len(lines) |-> [k \in 1..Len(idx) |-> lines[i][idx[k]]]])

SampleLines ==
    << <<"2023", "T1", "A", "Metro", "Regularite", "95,0", "98">>,
       <<"2023", "T2", "A", "Metro", "Regularite", "90,0", "98">>,
       <<"2022", "T4", "B", "Bus", "Proprete", "98,5", "90">> >>

\* every subset of the source columns, over the same three lines; the empty
\* subset is a file without a header line
ColumnFiles ==
    {Project(SourceHeader, SampleLines, keep) : keep \in SUBSET Range(SourceHeader)}

\* all columns, every body of at most MaxRows lines of RowDomain
RowFiles == {MkFile(SourceHeader, l) : l \in SeqsUpTo(RowDomain, MaxRows)}

\* two periods: every pair of (annee, trimestre), a missing one included
PeriodLines ==
    {<<y, q, "90,0">> : y \in {"2022", "2023", ""},
                        q \in {"T1", "T2", "T3", "T4", "T5", ""}}

PeriodFiles ==
    {MkFile(<<"annee", "trimestre", "resultat_indicateurs_en">>, <<a, b>>) :
        a \in PeriodLines, b \in PeriodLines}

\* the values given to the generated entities, cyclically
ValueCycle == <<"98,5", "80,5", "95,0", "90,0", "98", "80", "90">>

\* n entities with one line each; step spreads the values over the entities
\* and lines of the first entity are repeated when twice is set
LigneFile(n, step, twice) ==
    LET line(i) == <<LName(i), ValueCycle[((i * step) % Len(ValueCycle)) + 1]>>
        body == [i \in 1..n |-> line(i)]
    IN MkFile(<<"ligne", "resultat_indicateurs_en">>,
              IF twice /\ n > 0 THEN Append(body, <<LName(1), "80">>) ELSE body)

LigneFiles ==
    {LigneFile(n, step, twice) :
        n \in 0..(TopN + ExtraLignes), step \in {1, 3}, twice \in BOOLEAN}

\* header variants, an unknown column, and lines with a wrong field count
OddFiles ==
    { MkFile(ExportHeader, SampleLines),
      MkFile(SourceHeader \o <<"Indicateur">>,
             << <<"2023", "T1", "A", "Metro", "Regularite", "95,0", "98", "abc">>,
                <<"2023", "T2", "A", "Metro", "Regularite", "90,0", "98", "abc", "T1">>,
                <<"2022", "T4", "B", "Bus">> >>),
      MkFile(<<"annee", "resultat_indicateurs_en">>,
             << <<"abc", "95,0">>, <<"", "90,0">> >>),
      MkFile(<<"annee", "resultat_indicateurs_en">>,
             << <<"abc", "95,0">>, <<"T1", "90,0">> >>),
      MkFile(<<"mode", "resultat_indicateurs_en">>,
             << <<"90", "95,0">>, <<"80", "90,0">> >>) }

\* the environment: the file may be absent, and either attempt may raise
Environments ==
    {[MkFile(SourceHeader, SampleLines) EXCEPT !.exists = e, !.raises = r] :
        e \in BOOLEAN, r \in SUBSET {"latin-1", "utf-8"}}

InputFiles ==
    ColumnFiles \cup RowFiles \cup PeriodFiles \cup LigneFiles \cup OddFiles
    \cup Environments

(***************************************************************************)
(* Initial state: main() is about to call charger_donnees()                *)
(***************************************************************************)
ObjIds == 1..4

NoSel == [annees |-> None, mode |-> None, theme |-> None]

NoKpi == [moyenne_reelle |-> [int |-> 0], moyenne_objectif |-> [int |-> 0],
          delta |-> None]

NoViews == [df_time_long |-> None, df_bar |-> None, df_theme |-> None]

Init ==
    /\ file \in InputFiles
    /\ pc = "charger_donnees"
    /\ attempts = <<>>
    /\ ret = None
    /\ heap = [o \in ObjIds |-> None]
    /\ df_raw = None
    /\ df = None
    /\ loaded = None
    /\ cleaned = None
    /\ sel = NoSel
    /\ kpi = NoKpi
    /\ views = NoViews
    /\ notices = <<>>

\* the first unallocated object id
NewObj == CHOOSE o \in ObjIds : heap[o] = None /\ \A p \in ObjIds : p < o => heap[p] # None

\* a Python reference to the object o
Ref(o) == [obj |-> o]

\* the content of the object a variable refers to
Deref(r) == heap[r.obj]

\* a selection made in a widget
Chosen(x) == [chosen |-> x]

\* an aggregated frame, as the sequence of its rows
Frame(rows) == [rows |-> rows]

Notice(level, what) == [level |-> level, what |-> what]

(***************************************************************************)
(* charger_donnees()                                                       *)
(***************************************************************************)
\* lines 27-31: os.path.exists
CheckPath ==
    /\ pc = "charger_donnees"
    /\ IF file.exists
       THEN /\ pc' = "try_latin1"
            /\ UNCHANGED <<ret, notices>>
       ELSE /\ notices' = Append(notices, Notice("error", "introuvable"))
            /\ ret' = None
            /\ pc' = "returned"
    /\ UNCHANGED <<file, attempts, heap, df_raw, df, loaded, cleaned, sel, kpi, views>>

\* one read attempt: on success the table is a new object and is returned
ReadAttempt(encoding, onRaise, raiseNotices) ==
    /\ attempts' = Append(attempts, encoding)
    /\ IF ReadRaises(file, encoding)
       THEN /\ pc' = onRaise
            /\ notices' = notices \o raiseNotices
            /\ UNCHANGED <<ret, heap, loaded>>
       ELSE /\ heap' = [heap EXCEPT ![NewObj] = ReadCsv(file)]
            /\ ret' = Ref(NewObj)
            /\ loaded' = ReadCsv(file)
            /\ pc' = "returned"
            /\ UNCHANGED notices
    /\ UNCHANGED <<file, df_raw, df, cleaned, sel, kpi, views>>

\* faulty variant: UTF-8 is tried first
TryLatin1_Utf8First ==
    /\ pc = "try_latin1"
    /\ ReadAttempt("utf-8", "try_utf8", <<>>)

\* lines 33-38: Tentative 1
TryLatin1 ==
    /\ pc = "try_latin1"
    /\ ReadAttempt("latin-1", "try_utf8", <<>>)

\* lines 40-46: Tentative 2
TryUtf8 ==
    /\ pc = "try_utf8"
    /\ ReadAttempt("utf-8", "returned", <<Notice("error", "lecture")>>)

(***************************************************************************)
(* main(), lines 109-111                                                   *)
(***************************************************************************)
AfterLoad ==
    /\ pc = "returned"
    /\ df_raw' = ret
    /\ pc' = IF ret = None THEN "stopped" ELSE "nettoyer_donnees"
    /\ UNCHANGED <<file, attempts, ret, heap, df, loaded, cleaned, sel, kpi, views,
                   notices>>

(***************************************************************************)
(* nettoyer_donnees(df)                                                    *)
(***************************************************************************)
\* line 53: df.columns.str.strip().str.lower()
StandardiseColumns(t) ==
    [t EXCEPT !.columns = [j \in 1..Len(t.columns) |-> Lower(Strip(t.columns[j]))]]

\* lines 56-65: rename_map (the other six entries map a name to itself)
RenameMap(c) ==
    CASE c = "resultat_indicateurs_en" -> "valeur_reelle"
      [] c = "objectif_reference_contrat" -> "valeur_objectif"
      [] OTHER -> c

\* line 67: df.rename(columns=..., inplace=True)
RenameColumns(t) ==
    [t EXCEPT !.columns = [j \in 1..Len(t.columns) |-> RenameMap(t.columns[j])]]

\* line 75: astype(str).str.replace(',', '.')
CommaToPoint(cells) == [i \in 1..Len(cells) |-> [str |-> ReplaceComma(AsStr(cells[i]))]]

\* line 76: pd.to_numeric(errors='coerce'); the result is an integer column
\* only when every cell parses as an integer
ToNumeric(cells) ==
    LET parsed(c) ==
            IF ~IsStr(c) THEN c
            ELSE IF c.str \in DOMAIN IntText THEN [int |-> IntText[c.str]]
            ELSE IF c.str \in DOMAIN FloatText THEN [num |-> FloatText[c.str]]
            ELSE NaN
        allInt == \A i \in 1..Len(cells) : IsInt(parsed(cells[i]))
    IN [i \in 1..Len(cells) |->
          LET c == parsed(cells[i])
          IN IF IsInt(c) /\ ~allInt THEN [num |-> Tenths(c)] ELSE c]

\* lines 73-76 for one column
ConvertColumn(t, c) ==
    IF ~HasCol(t, c) THEN t
    ELSE LET cells == Col(t, c)
             texts == IF IsObject(cells) THEN CommaToPoint(cells) ELSE cells
         IN SetCol(t, c, ToNumeric(texts))

\* lines 71-76
ConvertNumeric(t) == ConvertColumn(ConvertColumn(t, "valeur_reelle"), "valeur_objectif")

\* line 81: one label
PeriodeLabel(annee, trimestre) == [str |-> AsStr(annee) \o " - " \o AsStr(trimestre)]

\* line 84: mapping_trimestre
MappingTrimestre(c) ==
    IF ~IsStr(c) THEN NaN
    ELSE CASE c.str = "T1" -> [int |-> 1]
           [] c.str = "T2" -> [int |-> 2]
           [] c.str = "T3" -> [int |-> 3]
           [] c.str = "T4" -> [int |-> 4]
           [] OTHER -> NaN

\* line 86: df['trimestre'].map(mapping_trimestre).fillna(0); a float column
\* as soon as one trimestre is not in the mapping
TrimNum(cells) ==
    LET mapped == [i \in 1..Len(cells) |-> MappingTrimestre(cells[i])]
        allInt == \A i \in 1..Len(cells) : IsInt(mapped[i])
    IN [i \in 1..Len(cells) |->
          IF IsNaN(mapped[i]) THEN [num |-> 0]
          ELSE IF allInt THEN mapped[i] ELSE [num |-> Tenths(mapped[i])]]

\* faulty variant: the year is not scaled
SortKey_Unscaled(annee, trim) ==
    IF IsNaN(annee) THEN NaN
    ELSE IF IsInt(annee) /\ IsInt(trim) THEN [int |-> annee.int + trim.int]
    ELSE [num |-> Tenths(annee) + Tenths(trim)]

\* line 87, one row: annee * 10 + trim_num
SortKey(annee, trim) ==
    IF IsNaN(annee) THEN NaN
    ELSE IF IsInt(annee) /\ IsInt(trim) THEN [int |-> annee.int * 10 + trim.int]
    ELSE [num |-> Tenths(annee) * 10 + Tenths(trim)]

\* line 87 raises TypeError when annee holds text: str * 10 repeats the text,
\* and adding the float trim_num to a str is an error
SortKeyRaises(t) == \E i \in 1..Len(t.rows) : IsStr(Col(t, "annee")[i])

\* lines 80-81
AddPeriodeLabel(t) ==
    SetCol(t, "periode_label",
           [i \in 1..Len(t.rows) |->
               PeriodeLabel(Col(t, "annee")[i], Col(t, "trimestre")[i])])

\* lines 84-87
AddSortKey(t) ==
    LET trim == TrimNum(Col(t, "trimestre"))
    IN SetCol(t, "sort_key",
              [i \in 1..Len(t.rows) |-> SortKey(Col(t, "annee")[i], trim[i])])

\* faulty variant: the rows without a value are kept
DropMissing_KeepAll(t) == t

\* line 91: df.dropna(subset=['valeur_reelle'], inplace=True)
DropMissing(t) ==
    IF ~HasCol(t, "valeur_reelle") THEN t
    ELSE [t EXCEPT !.rows = SelectSeq(t.rows, LAMBDA r : ~IsNaN(Cell(t, r, "valeur_reelle")))]

HasPeriod(t) == HasCol(t, "annee") /\ HasCol(t, "trimestre")

\* the content of df when line 87 is reached
BeforeSortKey(t) ==
    LET converted == ConvertNumeric(RenameColumns(StandardiseColumns(t)))
    IN IF HasPeriod(converted) THEN AddPeriodeLabel(converted) ELSE converted

NettoyerRaises(t) == HasPeriod(BeforeSortKey(t)) /\ SortKeyRaises(BeforeSortKey(t))

\* the content of df when nettoyer_donnees returns
Nettoye(t) ==
    LET labelled == BeforeSortKey(t)
    IN DropMissing(IF HasPeriod(labelled) THEN AddSortKey(labelled) ELSE labelled)

\* main() line 113: df = nettoyer_donnees(df_raw).  The function works on the
\* object it is given and returns that same object; an exception leaves the
\* object as it was when the exception was raised and ends the run.
Nettoyer ==
    /\ pc = "nettoyer_donnees"
    /\ IF NettoyerRaises(Deref(df_raw))
       THEN /\ heap' = [heap EXCEPT ![df_raw.obj] = BeforeSortKey(Deref(df_raw))]
            /\ notices' = Append(notices, Notice("exception", "TypeError line 87"))
            /\ pc' = "crashed"
            /\ UNCHANGED <<df, cleaned>>
       ELSE /\ heap' = [heap EXCEPT ![df_raw.obj] = Nettoye(Deref(df_raw))]
            /\ df' = df_raw
            /\ cleaned' = Nettoye(Deref(df_raw))
            /\ pc' = "check_empty"
            /\ UNCHANGED notices
    /\ UNCHANGED <<file, attempts, ret, df_raw, loaded, sel, kpi, views>>

\* main() lines 115-117
CheckEmpty ==
    /\ pc = "check_empty"
    /\ IF Empty(Deref(df))
       THEN /\ notices' = Append(notices, Notice("warning", "aucune donnee exploitable"))
            /\ pc' = "stopped"
       ELSE /\ pc' = "filtre_annee"
            /\ UNCHANGED notices
    /\ UNCHANGED <<file, attempts, ret, heap, df_raw, df, loaded, cleaned, sel, kpi,
                   views>>

(***************************************************************************)
(* main(), section C: the sidebar filters.  Each selection is an input of  *)
(* the user, drawn from the options the widget offers.                     *)
(***************************************************************************)
\* line 124: sorted(df['annee'].unique()) compares the distinct values; a
\* text is not comparable with the float NaN of a missing cell (TypeError)
SortedRaises(cells) ==
    /\ \E i \in 1..Len(cells) : IsStr(cells[i])
    /\ \E i \in 1..Len(cells) : ~IsStr(cells[i])

\* line 125: the options of the multiselect
AnneesDispo(t) == Range(Col(t, "annee"))

\* line 127: df[df['annee'].isin(annees_sel)]
FiltreAnnee(t, annees_sel) ==
    [t EXCEPT !.rows = SelectSeq(t.rows, LAMBDA r : Cell(t, r, "annee") \in annees_sel)]

\* lines 132 and 139: ['Tous'] + sorted(df[c].dropna().astype(str).unique())
Options(t, c, sentinel) ==
    {sentinel} \cup {AsStr(x) : x \in {y \in Range(Col(t, c)) : ~IsNaN(y)}}

\* lines 135 and 142: df[df[c] == choice]; a cell that is not a text is
\* never equal to the chosen text
FiltreEgal(t, c, choice) ==
    [t EXCEPT !.rows = SelectSeq(t.rows, LAMBDA r : Cell(t, r, c) = [str |-> choice])]

\* df = <new DataFrame>
Rebind(t) ==
    /\ heap' = [heap EXCEPT ![NewObj] = t]
    /\ df' = Ref(NewObj)

\* lines 123-127
FilterAnnee ==
    /\ pc = "filtre_annee"
    /\ IF ~HasCol(Deref(df), "annee")
       THEN /\ pc' = "filtre_mode"
            /\ UNCHANGED <<heap, df, sel, notices>>
       ELSE IF SortedRaises(Col(Deref(df), "annee"))
       THEN /\ pc' = "crashed"
            /\ notices' = Append(notices, Notice("exception", "TypeError line 124"))
            /\ UNCHANGED <<heap, df, sel>>
       ELSE \E annees_sel \in SUBSET AnneesDispo(Deref(df)) :
            /\ sel' = [sel EXCEPT !.annees = Chosen(annees_sel)]
            /\ IF annees_sel # {}
               THEN Rebind(FiltreAnnee(Deref(df), annees_sel))
               ELSE UNCHANGED <<heap, df>>
            /\ pc' = "filtre_mode"
            /\ UNCHANGED notices
    /\ UNCHANGED <<file, attempts, ret, df_raw, loaded, cleaned, kpi, views>>

\* lines 130-135 (c = 'mode') and 138-142 (c = 'thematique')
FilterSelectbox(c, sentinel, field, next) ==
    /\ IF ~HasCol(Deref(df), c)
       THEN UNCHANGED <<heap, df, sel>>
       ELSE \E choice \in Options(Deref(df), c, sentinel) :
            /\ sel' = [sel EXCEPT ![field] = Chosen(choice)]
            /\ IF choice # sentinel
               THEN Rebind(FiltreEgal(Deref(df), c, choice))
               ELSE UNCHANGED <<heap, df>>
    /\ pc' = next
    /\ UNCHANGED <<file, attempts, ret, df_raw, loaded, cleaned, kpi, views, notices>>

FilterMode ==
    /\ pc = "filtre_mode"
    /\ FilterSelectbox("mode", "Tous", "mode", "filtre_thematique")

FilterTheme ==
    /\ pc = "filtre_thematique"
    /\ FilterSelectbox("thematique", "Toutes", "theme", "kpi")

(***************************************************************************)
(* main(), section D: the KPIs                                             *)
(***************************************************************************)
\* line 162: moyenne_reelle - moyenne_objectif (NaN when either is NaN)
Delta(a, b) ==
    IF IsNaN(a) \/ IsNaN(b) THEN NaN
    ELSE [s |-> a.s * b.n - b.s * a.n, n |-> a.n * b.n]

\* lines 150-164
KPIs ==
    /\ pc = "kpi"
    /\ LET t == Deref(df)
           mr == IF HasCol(t, "valeur_reelle") THEN Mean(Col(t, "valeur_reelle"))
                 ELSE kpi.moyenne_reelle
           mo == IF HasCol(t, "valeur_objectif") THEN Mean(Col(t, "valeur_objectif"))
                 ELSE kpi.moyenne_objectif
       IN kpi' = [moyenne_reelle |-> mr,
                  moyenne_objectif |-> mo,
                  delta |-> IF HasCol(t, "valeur_reelle") /\ HasCol(t, "valeur_objectif")
                            THEN Delta(mr, mo) ELSE None]
    /\ pc' = "vue_temps"
    /\ UNCHANGED <<file, attempts, ret, heap, df_raw, df, loaded, cleaned, sel, views,
                   notices>>

(***************************************************************************)
(* main(), section E: the three views                                      *)
(***************************************************************************)

\* the integer k as a sort key
AsKey(k) == [s |-> k, n |-> 1]

\* df.groupby(c): the distinct non-missing values of column c, in ascending
\* order (groupby sorts its keys and leaves out the rows whose key is NaN)
GroupKeys(t, c) ==
    LET present == SelectSeq(Col(t, c), LAMBDA x : ~IsNaN(x))
        items == [i \in 1..Len(Unique(present)) |->
                     [cell |-> Unique(present)[i],
                      key |-> AsKey(StrRank(AsStr(Unique(present)[i])))]]
        sorted == StableSort(items)
    IN [i \in 1..Len(sorted) |-> sorted[i].cell]

\* df.groupby(c)['valeur_reelle'].mean().reset_index()
MeanBy(t, c) ==
    LET keys == GroupKeys(t, c)
        members(k) == SelectSeq(t.rows, LAMBDA r : Cell(t, r, c) = k)
    IN [i \in 1..Len(keys) |->
          [name |-> keys[i],
           valeur_reelle |->
               Mean([j \in 1..Len(members(keys[i])) |->
                        Cell(t, members(keys[i])[j], "valeur_reelle")])]]

\* sort_values('valeur_reelle', ascending=True) of a grouped frame; the mean
\* of a group is never NaN here because every row has a valeur_reelle
SortByMean(groups, ties) ==
    LET items == [i \in 1..Len(groups) |->
                     [g |-> groups[i], key |-> groups[i].valeur_reelle]]
        sorted == SortValues(items, ties)
    IN [i \in 1..Len(sorted) |-> sorted[i].g]

\* DataFrame.head(n)
HeadN(s, n) == SubSeq(s, 1, IF Len(s) < n THEN Len(s) ELSE n)

\* faulty variant: the first 15 groups are taken before they are sorted by mean
DfBar_HeadFirst(t, ties) == SortByMean(HeadN(MeanBy(t, "ligne"), TopN), ties)

\* lines 211-213
DfBar(t, ties) == HeadN(SortByMean(MeanBy(t, "ligne"), ties), TopN)

\* line 233
DfTheme(t, ties) == SortByMean(MeanBy(t, "thematique"), ties)

\* line 181: the (sort_key, periode_label) pairs of the rows whose sort_key
\* is not missing, in ascending order of (sort_key, periode_label)
PeriodKeys(t) ==
    LET idx == SelectSeq([i \in 1..Len(t.rows) |-> i],
                         LAMBDA i : ~IsNaN(Col(t, "sort_key")[i]))
        pairs == Unique([k \in 1..Len(idx) |->
                            [sort_key |-> Col(t, "sort_key")[idx[k]],
                             periode_label |-> Col(t, "periode_label")[idx[k]],
                             trimestre |-> AsStr(Col(t, "trimestre")[idx[k]])]])
        byLabel == StableSort([i \in 1..Len(pairs) |->
                                  [p |-> pairs[i], key |-> AsKey(StrRank(pairs[i].trimestre))]])
        byKey == StableSort([i \in 1..Len(byLabel) |->
                                [p |-> byLabel[i].p,
                                 key |-> AsKey(Tenths(byLabel[i].p.sort_key))]])
    IN [i \in 1..Len(byKey) |->
          [sort_key |-> byKey[i].p.sort_key, periode_label |-> byKey[i].p.periode_label]]

\* faulty variant: every period gets the means of the whole table
DfTime_WholeTable(t, ties) ==
    LET keys == PeriodKeys(t)
    IN [i \in 1..Len(keys) |->
          [sort_key |-> keys[i].sort_key,
           periode_label |-> keys[i].periode_label,
           valeur_reelle |-> Mean(Col(t, "valeur_reelle")),
           valeur_objectif |-> IF HasCol(t, "valeur_objectif")
                               THEN Mean(Col(t, "valeur_objectif")) ELSE None]]

\* lines 177-182: df_time
DfTime(t, ties) ==
    LET keys == PeriodKeys(t)
        members(k) ==
            SelectSeq(t.rows, LAMBDA r : /\ Cell(t, r, "sort_key") = k.sort_key
                                         /\ Cell(t, r, "periode_label") = k.periode_label)
        mean(k, c) == Mean([j \in 1..Len(members(k)) |-> Cell(t, members(k)[j], c)])
        sorted == SortValues([i \in 1..Len(keys) |->
                                 [k |-> keys[i], key |-> AsKey(Tenths(keys[i].sort_key))]],
                             ties)
    IN [i \in 1..Len(sorted) |->
          [sort_key |-> sorted[i].k.sort_key,
           periode_label |-> sorted[i].k.periode_label,
           valeur_reelle |-> mean(sorted[i].k, "valeur_reelle"),
           valeur_objectif |-> IF HasCol(t, "valeur_objectif")
                               THEN mean(sorted[i].k, "valeur_objectif") ELSE None]]

\* lines 189-190: labels_map
LabelsMap(c) == IF c = "valeur_reelle" THEN "Réel" ELSE "Objectif"

\* lines 185-190: df_time_long, one block of rows per aggregated column
DfTimeLong(t, ties) ==
    LET wide == DfTime(t, ties)
        block(c) == [i \in 1..Len(wide) |->
                        [periode_label |-> wide[i].periode_label,
                         sort_key |-> wide[i].sort_key,
                         Type |-> LabelsMap(c),
                         Score |-> wide[i][c]]]
    IN block("valeur_reelle")
       \o (IF HasCol(t, "valeur_objectif") THEN block("valeur_objectif") ELSE <<>>)

\* lines 173-204.  groupby(...)[cols_to_agg] raises KeyError when the table
\* has no valeur_reelle column.
ViewTime ==
    /\ pc = "vue_temps"
    /\ LET t == Deref(df)
       IN IF HasCol(t, "periode_label") /\ HasCol(t, "sort_key")
          THEN IF HasCol(t, "valeur_reelle")
               THEN /\ \E ties \in TieOrders :
                          views' = [views EXCEPT !.df_time_long = Frame(DfTimeLong(t, ties))]
                    /\ pc' = "vue_lignes"
                    /\ UNCHANGED notices
               ELSE /\ notices' = Append(notices, Notice("exception", "KeyError line 181"))
                    /\ pc' = "crashed"
                    /\ UNCHANGED views
          ELSE /\ notices' = Append(notices, Notice("info", "temps"))
               /\ pc' = "vue_lignes"
               /\ UNCHANGED views
    /\ UNCHANGED <<file, attempts, ret, heap, df_raw, df, loaded, cleaned, sel, kpi>>

\* lines 207-228
ViewBar ==
    /\ pc = "vue_lignes"
    /\ LET t == Deref(df)
       IN IF HasCol(t, "ligne") /\ HasCol(t, "valeur_reelle")
          THEN /\ \E ties \in TieOrders :
                     views' = [views EXCEPT !.df_bar = Frame(DfBar(t, ties))]
               /\ UNCHANGED notices
          ELSE /\ notices' = Append(notices, Notice("info", "lignes"))
               /\ UNCHANGED views
    /\ pc' = "vue_thematique"
    /\ UNCHANGED <<file, attempts, ret, heap, df_raw, df, loaded, cleaned, sel, kpi>>

\* lines 231-246: there is no else branch
ViewTheme ==
    /\ pc = "vue_thematique"
    /\ LET t == Deref(df)
       IN IF HasCol(t, "thematique") /\ HasCol(t, "valeur_reelle")
          THEN \E ties \in TieOrders :
                  views' = [views EXCEPT !.df_theme = Frame(DfTheme(t, ties))]
          ELSE UNCHANGED views
    /\ pc' = "donnees_brutes"
    /\ UNCHANGED <<file, attempts, ret, heap, df_raw, df, loaded, cleaned, sel, kpi,
                   notices>>

\* lines 249-260: the raw table and the synthesis end the run
ShowRaw ==
    /\ pc = "donnees_brutes"
    /\ pc' = "done"
    /\ UNCHANGED <<file, attempts, ret, heap, df_raw, df, loaded, cleaned, sel, kpi,
                   views, notices>>

Next ==
    \/ CheckPath
    \/ TryLatin1
    \/ TryUtf8
    \/ AfterLoad
    \/ Nettoyer
    \/ CheckEmpty
    \/ FilterAnnee
    \/ FilterMode
    \/ FilterTheme
    \/ KPIs
    \/ ViewTime
    \/ ViewBar
    \/ ViewTheme
    \/ ShowRaw

Spec == Init /\ [][Next]_vars

(***************************************************************************)
(* Properties                                                              *)
(***************************************************************************)
\* positions of main() after the emptiness check
FilterPositions ==
    {"filtre_annee", "filtre_mode", "filtre_thematique", "kpi", "vue_temps",
     "vue_lignes", "vue_thematique", "donnees_brutes", "done"}

HasNotice(level, what) == \E i \in 1..Len(notices) : notices[i] = Notice(level, what)

Raised(what) == HasNotice("exception", what)

\* the loaded table under its normalized column names
LoadedNorm == RenameColumns(StandardiseColumns(loaded))

\* a cell of the file that holds a measured value: a number, or a text that
\* is a number once its decimal comma is a point
Measured(c) ==
    \/ IsNumeric(c)
    \/ IsStr(c) /\ ReplaceComma(c.str) \in DOMAIN IntText \cup DOMAIN FloatText

\* sum (in tenths) and count of the non-missing cells of a sequence
RECURSIVE SumTenths(_)
SumTenths(cells) ==
    IF cells = <<>> THEN 0
    ELSE (IF IsNumeric(Head(cells)) THEN Tenths(Head(cells)) ELSE 0)
         + SumTenths(Tail(cells))

CountPresent(cells) == Len(SelectSeq(cells, IsNumeric))

\* m is the arithmetic mean of the non-missing cells (NaN when there is none)
IsMeanOf(m, cells) ==
    IF CountPresent(cells) = 0 THEN IsNaN(m)
    ELSE /\ ~IsNaN(m)
         /\ m.n > 0
         /\ m.s * CountPresent(cells) = SumTenths(cells) * m.n

\* column c of the given rows of t
ColOf(t, c, rows) == [i \in 1..Len(rows) |-> Cell(t, rows[i], c)]

(***************************************************************************)
(* C9.  Loader attempt order.                                              *)
(***************************************************************************)
FirstEncodingThatReads ==
    IF ~ReadRaises(file, "latin-1") THEN "latin-1" ELSE "utf-8"

BothAttemptsRaise == ReadRaises(file, "latin-1") /\ ReadRaises(file, "utf-8")

\* C9: when the path does not exist charger_donnees returns an error and no
\* read is attempted; otherwise Latin-1 is tried first, UTF-8 at most once
\* and only after the Latin-1 attempt raised; the table is returned as soon
\* as an attempt succeeds, and the read error is reported only when both
\* attempts have failed.
C9_LoaderAttemptOrder ==
    /\ attempts \in {<<>>, <<"latin-1">>, <<"latin-1", "utf-8">>}
    /\ ~file.exists => attempts = <<>>
    /\ Len(attempts) = 2 => ReadRaises(file, "latin-1")
    /\ pc = "try_utf8" => attempts = <<"latin-1">> /\ ReadRaises(file, "latin-1")
    /\ pc \notin {"charger_donnees", "try_latin1", "try_utf8"} =>
          /\ ~file.exists =>
                /\ ret = None
                /\ notices[1] = Notice("error", "introuvable")
          /\ file.exists /\ ~BothAttemptsRaise =>
                /\ ret # None
                /\ loaded = ReadCsv(file)
                /\ attempts[Len(attempts)] = FirstEncodingThatReads
                /\ ~HasNotice("error", "lecture")
          /\ file.exists /\ BothAttemptsRaise =>
                /\ ret = None
                /\ attempts = <<"latin-1", "utf-8">>
                /\ notices[1] = Notice("error", "lecture")
          /\ HasNotice("error", "lecture") => BothAttemptsRaise

\* the UTF-8 attempt ran after a failed Latin-1 attempt and returned the table
C9_Witness ==
    /\ attempts = <<"latin-1", "utf-8">>
    /\ ret # None
    /\ pc = "returned"

(***************************************************************************)
(* C1.  Per-view degradation.                                              *)
(***************************************************************************)
ViewNeeds ==
    [temps |-> {"periode_label", "sort_key", "valeur_reelle"},
     lignes |-> {"ligne", "valeur_reelle"},
     thematique |-> {"thematique", "valeur_reelle"}]

ViewOf ==
    [temps |-> views.df_time_long, lignes |-> views.df_bar,
     thematique |-> views.df_theme]

\* C1: no view raises; at the end of the run every view whose required
\* columns are all present has been produced, and every other view has been
\* skipped with an informational notice.
C1_PerViewDegradation ==
    /\ ~Raised("KeyError line 181")
    /\ pc = "done" =>
          \A v \in DOMAIN ViewNeeds :
             IF ViewNeeds[v] \subseteq Range(Deref(df).columns)
             THEN ViewOf[v] # None
             ELSE ViewOf[v] = None /\ HasNotice("info", v)

(***************************************************************************)
(* C3.  A row with an unparseable year.                                    *)
(***************************************************************************)
\* a row of the loaded table with a text year, a valid quarter and a value
TextYearRow(r) ==
    /\ IsStr(Cell(LoadedNorm, r, "annee"))
    /\ Cell(LoadedNorm, r, "annee").str \notin DOMAIN IntText
    /\ ~IsNaN(MappingTrimestre(Cell(LoadedNorm, r, "trimestre")))
    /\ Measured(Cell(LoadedNorm, r, "valeur_reelle"))

\* C3: once nettoyer_donnees has run on a table with such a row, it has
\* returned, and the returned table has a row with that year and quarter
\* whose sort_key is missing.
C3_UnparseableYearSurvives ==
    (/\ loaded # None
     /\ pc \notin {"returned", "nettoyer_donnees"}
     /\ {"annee", "trimestre", "valeur_reelle"} \subseteq Range(LoadedNorm.columns))
    => \A k \in 1..Len(loaded.rows) :
          TextYearRow(LoadedNorm.rows[k]) =>
             /\ ~Raised("TypeError line 87")
             /\ cleaned # None
             /\ \E i \in 1..Len(cleaned.rows) :
                   /\ Col(cleaned, "annee")[i] = Cell(LoadedNorm, LoadedNorm.rows[k], "annee")
                   /\ Col(cleaned, "trimestre")[i]
                         = Cell(LoadedNorm, LoadedNorm.rows[k], "trimestre")
                   /\ IsNaN(Col(cleaned, "sort_key")[i])

(***************************************************************************)
(* C4.  nettoyer_donnees and the later steps leave their input alone.      *)
(***************************************************************************)
\* C4: the table object charger_donnees returned keeps the content it was
\* loaded with, the normalized table is another object, and the filters and
\* views never change the normalized table.
C4_InputNotMutated ==
    /\ ret # None => heap[ret.obj] = loaded
    /\ pc = "check_empty" => df # df_raw
    /\ cleaned # None /\ pc \in FilterPositions => heap[df_raw.obj] = cleaned

(***************************************************************************)
(* C5.  Run halting.                                                       *)
(***************************************************************************)
\* no row of the loaded table holds a measured value
NoRowSurvives ==
    \/ Len(loaded.rows) = 0
    \/ /\ HasCol(LoadedNorm, "valeur_reelle")
       /\ \A k \in 1..Len(loaded.rows) :
             ~Measured(Cell(LoadedNorm, LoadedNorm.rows[k], "valeur_reelle"))

\* C5: filters, KPIs and views run only after a successful load and a
\* non-empty normalization; a failed load stops the run with an error and
\* nothing else; a load after which no row survives stops the run with the
\* warning, without error and without exception, and no view is produced.
C5_RunHalting ==
    /\ (pc \in FilterPositions \/ views # NoViews \/ kpi # NoKpi \/ sel # NoSel) =>
          /\ ret # None
          /\ cleaned # None
          /\ ~Empty(cleaned)
    /\ (ret = None /\ pc \in {"stopped", "crashed", "done"} \cup FilterPositions) =>
          /\ pc = "stopped"
          /\ Len(notices) = 1 /\ notices[1].level = "error"
          /\ views = NoViews /\ kpi = NoKpi /\ sel = NoSel
    /\ (/\ loaded # None
        /\ pc \notin {"returned", "nettoyer_donnees", "check_empty"}
        /\ NoRowSurvives) =>
          /\ pc = "stopped"
          /\ notices = <<Notice("warning", "aucune donnee exploitable")>>
          /\ views = NoViews /\ kpi = NoKpi /\ sel = NoSel

(***************************************************************************)
(* C2.  Every normalized row has a measured value.                         *)
(***************************************************************************)
\* the rows of the loaded table that hold a measured value, in file order
MeasuredRows ==
    SelectSeq(LoadedNorm.rows,
              LAMBDA r : Measured(Cell(LoadedNorm, r, "valeur_reelle")))

\* the columns nettoyer_donnees does not convert
KeptAsIs == {k \in 1..Len(loaded.columns) :
                LoadedNorm.columns[k] \notin {"valeur_reelle", "valeur_objectif"}}

\* C2 as stated: every row of the table nettoyer_donnees returns has a
\* valeur_reelle, and it is not missing.
C2_EveryRowHasValue ==
    cleaned # None =>
       \A i \in 1..Len(cleaned.rows) :
          /\ HasCol(cleaned, "valeur_reelle")
          /\ ~IsNaN(Col(cleaned, "valeur_reelle")[i])

\* C2 amended: when the returned table has a valeur_reelle column, none of
\* its rows has a missing valeur_reelle, its rows are exactly the rows of the
\* input whose value is a number (after the decimal comma is replaced), in
\* the input's order, and no row with a missing value is in the table the
\* filters and views work on; without that column no row is removed.
C2_EveryRowHasValueWhenColumn ==
    cleaned # None =>
       IF HasCol(cleaned, "valeur_reelle")
       THEN /\ \A i \in 1..Len(cleaned.rows) : ~IsNaN(Col(cleaned, "valeur_reelle")[i])
            /\ Len(cleaned.rows) = Len(MeasuredRows)
            /\ \A i \in 1..Len(cleaned.rows) : \A k \in KeptAsIs :
                  cleaned.rows[i][k] = MeasuredRows[i][k]
            /\ pc \in FilterPositions =>
                  \A i \in 1..Len(Deref(df).rows) :
                     ~IsNaN(Col(Deref(df), "valeur_reelle")[i])
       ELSE /\ Len(cleaned.rows) = Len(loaded.rows)
            /\ \A i \in 1..Len(cleaned.rows) : \A k \in KeptAsIs :
                  cleaned.rows[i][k] = loaded.rows[i][k]

\* a row was removed for its unparseable value and another row was kept
C2_Witness ==
    /\ cleaned # None
    /\ HasCol(cleaned, "valeur_reelle")
    /\ Len(cleaned.rows) = 1
    /\ Len(loaded.rows) = 2
    /\ \E k \in 1..2 : Cell(LoadedNorm, LoadedNorm.rows[k], "valeur_reelle") = [str |-> "abc"]

(***************************************************************************)
(* C10.  sort_key orders the periods.                                      *)
(***************************************************************************)
\* quarter_index of a trimestre cell
QuarterIndex(c) ==
    IF c = [str |-> "T1"] THEN 1
    ELSE IF c = [str |-> "T2"] THEN 2
    ELSE IF c = [str |-> "T3"] THEN 3
    ELSE IF c = [str |-> "T4"] THEN 4
    ELSE 0

\* the rows of the normalized table whose annee is a number
DatedRows ==
    IF cleaned = None \/ ~HasCol(cleaned, "sort_key") THEN {}
    ELSE {i \in 1..Len(cleaned.rows) : IsNumeric(Col(cleaned, "annee")[i])}

Annee10(i) == Tenths(Col(cleaned, "annee")[i])
Key10(i) == Tenths(Col(cleaned, "sort_key")[i])
Quarter(i) == QuarterIndex(Col(cleaned, "trimestre")[i])

Lignes == {c \in Range(Col(Deref(df), "ligne")) : ~IsNaN(c)}

ValuesOfLigne(e) ==
    ColOf(Deref(df), "valeur_reelle",
          SelectSeq(Deref(df).rows, LAMBDA r : Cell(Deref(df), r, "ligne") = e))

\* the mean of entity a is at most the mean of entity b
LigneMeanLeq(a, b) ==
    SumTenths(ValuesOfLigne(a)) * Len(ValuesOfLigne(b))
       <= SumTenths(ValuesOfLigne(b)) * Len(ValuesOfLigne(a))

Min(a, b) == IF a < b THEN a ELSE b

\* C7: the view has min(15, number of distinct ligne) rows, one per entity,
\* each with the mean of that entity's values; its rows are in non-decreasing
\* order of mean, and no entity left out has a lower mean than one shown.
C7_RankedEntityView ==
    views.df_bar # None =>
       LET v == views.df_bar.rows
           shown == {v[i].name : i \in 1..Len(v)}
       IN /\ Len(v) = Min(TopN, Cardinality(Lignes))
          /\ Len(v) <= TopN
          /\ shown \subseteq Lignes
          /\ Cardinality(shown) = Len(v)
          /\ \A i \in 1..Len(v) : IsMeanOf(v[i].valeur_reelle, ValuesOfLigne(v[i].name))
          /\ \A i, j \in 1..Len(v) : i < j => LigneMeanLeq(v[i].name, v[j].name)
          /\ \A a \in shown : \A b \in Lignes \ shown : LigneMeanLeq(a, b)

\* more than 15 entities, 15 of them shown, one with two values
C7_Witness ==
    /\ views.df_bar # None
    /\ Cardinality(Lignes) > TopN
    /\ Len(views.df_bar.rows) = TopN
    /\ \E e \in Lignes : Len(ValuesOfLigne(e)) = 2

(***************************************************************************)
(* C8.  Temporal trend view.                                               *)
(***************************************************************************)
\* the rows of one series of the long-form view
Series(name) == SelectSeq(views.df_time_long.rows, LAMBDA r : r.Type = name)

PeriodOf(r) == <<r.sort_key, r.periode_label>>

\* the (sort_key, periode_label) pairs of the rows of the filtered table
AllPeriods ==
    {<<Col(Deref(df), "sort_key")[i], Col(Deref(df), "periode_label")[i]>> :
        i \in 1..Len(Deref(df).rows)}

\* those whose sort_key is not missing
DatedPeriods == {p \in AllPeriods : ~IsNaN(p[1])}

ValuesOfPeriod(p, c) ==
    ColOf(Deref(df), c,
          SelectSeq(Deref(df).rows,
                    LAMBDA r : /\ Cell(Deref(df), r, "sort_key") = p[1]
                               /\ Cell(Deref(df), r, "periode_label") = p[2]))

\* the mean m equals the number held in tenths
MeanIs(m, tenths) == ~IsNaN(m) /\ m.s = tenths * m.n

\* the two rows of the end-to-end scenario
ScenarioFile ==
    MkFile(SourceHeader,
           << <<"2023", "T1", "A", "Metro", "Regularite", "95,0", "98">>,
              <<"2023", "T2", "A", "Metro", "Regularite", "90,0", "98">> >>)

\* the series of the view over the groups in periods
TrendOver(periods) ==
    LET reel == Series("Réel")
        objectif == Series("Objectif")
    IN /\ {PeriodOf(reel[i]) : i \in 1..Len(reel)} = periods
       /\ Len(reel) = Cardinality(periods)
       /\ Len(views.df_time_long.rows) = Len(reel) + Len(objectif)
       /\ \A i \in 1..Len(reel) :
             /\ ValuesOfPeriod(PeriodOf(reel[i]), "valeur_reelle") # <<>>
             /\ IsMeanOf(reel[i].Score, ValuesOfPeriod(PeriodOf(reel[i]), "valeur_reelle"))
       /\ IF HasCol(Deref(df), "valeur_objectif")
          THEN /\ Len(objectif) = Len(reel)
               /\ \A i \in 1..Len(objectif) :
                     /\ PeriodOf(objectif[i]) = PeriodOf(reel[i])
                     /\ IsMeanOf(objectif[i].Score,
                                 ValuesOfPeriod(PeriodOf(objectif[i]), "valeur_objectif"))
          ELSE objectif = <<>>
       /\ \A i, j \in 1..Len(reel) :
             i < j => Tenths(reel[i].sort_key) <= Tenths(reel[j].sort_key)
       /\ \A i, j \in 1..Len(objectif) :
             i < j => Tenths(objectif[i].sort_key) <= Tenths(objectif[j].sort_key)

\* the end-to-end scenario: two periods in order, and the overall mean
Scenario ==
    file = ScenarioFile =>
       /\ Len(Series("Réel")) = 2 /\ Len(Series("Objectif")) = 2
       /\ Series("Réel")[1].periode_label = [str |-> "2023 - T1"]
       /\ MeanIs(Series("Réel")[1].Score, 950)
       /\ MeanIs(Series("Objectif")[1].Score, 980)
       /\ Series("Réel")[2].periode_label = [str |-> "2023 - T2"]
       /\ MeanIs(Series("Réel")[2].Score, 900)
       /\ MeanIs(Series("Objectif")[2].Score, 980)
       /\ MeanIs(kpi.moyenne_reelle, 925)

\* C8 as stated: the view has one group per distinct (sort_key,
\* periode_label) of the rows of the filtered table, none of them empty, each
\* with the means of its rows, in ascending sort_key order within a series;
\* the scenario gives its two periods and the overall mean 92.5.
C8_TrendOverAllPeriods ==
    views.df_time_long # None => TrendOver(AllPeriods) /\ Scenario

\* C8 amended: the same, over the (sort_key, periode_label) pairs whose
\* sort_key is not missing: the rows without a sort_key (their annee is
\* missing) belong to no group; a mean is taken over the non-missing values
\* of the group and is missing when the group has none.
C8_TrendOverDatedPeriods ==
    views.df_time_long # None => TrendOver(DatedPeriods) /\ Scenario

\* two periods with both series, read from a file that lists the later
\* period first
C8_Witness ==
    /\ views.df_time_long # None
    /\ Len(Series("Réel")) = 2
    /\ Len(Series("Objectif")) = 2
    /\ Tenths(Col(Deref(df), "sort_key")[1]) > Tenths(Col(Deref(df), "sort_key")[2])

(***************************************************************************)
(* C6.  Filter result.                                                     *)
(***************************************************************************)
\* the row satisfies the constraint on annee, on mode, on thematique; a
\* field that is absent, an empty year selection and a sentinel do not
\* constrain
MatchesAnnees(r) ==
    \/ sel.annees = None
    \/ sel.annees.chosen = {}
    \/ Cell(cleaned, r, "annee") \in sel.annees.chosen

MatchesChoice(r, c, choice, sentinel) ==
    \/ choice = None
    \/ choice.chosen = sentinel
    \/ /\ ~IsNaN(Cell(cleaned, r, c))
       /\ AsStr(Cell(cleaned, r, c)) = choice.chosen

MatchesAll(r) ==
    /\ MatchesAnnees(r)
    /\ MatchesChoice(r, "mode", sel.mode, "Tous")
    /\ MatchesChoice(r, "thematique", sel.theme, "Toutes")

\* C6: the filters never raise, and once the three filters have run the
\* filtered table holds exactly the rows of the normalized table that
\* satisfy all the constraints, with the same columns.
C6_FilterResult ==
    /\ ~Raised("TypeError line 124")
    /\ pc \in {"kpi", "vue_temps", "vue_lignes", "vue_thematique", "donnees_brutes", "done"} =>
          /\ Deref(df).columns = cleaned.columns
          /\ Deref(df).rows = SelectSeq(cleaned.rows, MatchesAll)
          /\ (sel.annees = None) = ~HasCol(cleaned, "annee")
          /\ (sel.mode = None) = ~HasCol(cleaned, "mode")
          /\ (sel.theme = None) = ~HasCol(cleaned, "thematique")

====
